---- MODULE Spec2Model ----
(***************************************************************************)
(* Real-time chat subsystem of weoucbookcycle_go.                          *)
(*                                                                         *)
(* package websocket (routed at /ws): connection registry `clients`,       *)
(* room table `chatRooms`, the broadcast queue with its single worker,     *)
(* the Redis subscription loop and the heartbeat sweep.                    *)
(* ChatController and ChatService: the HTTP ingestion paths with their      *)
(* task queues and workers, and the `messages` table.                      *)
(* The shared Redis store holds the presence keys and the unread counters. *)
(*                                                                         *)
(* Lock acquisitions that can block are separate steps; a critical section *)
(* that cannot block is one step.                                          *)
(***************************************************************************)
EXTENDS Integers, Sequences, FiniteSets, TLC

\* ------------------------------------------------------------------ bounds
MaxConns == 2        \* connections upgraded over a run
MaxMsgs == 2         \* frames and HTTP requests accepted over a run
SendCap == 3         \* capacity of Client.Send (256 in the source)
BroadcastCap == 2    \* capacity of broadcastQueue (1000 in the source)
TaskCap == 1         \* capacity of a messageQueue (1000 and 2000 in the source)
MaxServices == 2     \* ChatService objects made by request handlers over a run
MaxPings == 4        \* frames logged on a connection before its last ping

Users == {"X", "Y"}

\* A user with no row in chat_users, and every user ID a request can carry
Outsider == "Z"
Everyone == Users \cup {Outsider}

\* WSMessage.Content and req.Content by length: "", 1 to 1000 bytes, more than 1000
Contents == {"empty", "ok", "long"}
Chats == {"c1"}
ConnIds == 1..MaxConns
NoConn == 0
NoChat == "-"
NoUser == "-"

VARIABLES
  redisUp,          \* config.RedisClient != nil
  nextConn,         \* next Client object to allocate
  cID,              \* Client.ID of each allocated Client, NoUser before
  cOpen,            \* Client.Connection is open; readPump and writePump run
  cSend,            \* Client.Send, the outbound queue
  cChatRooms,       \* Client.ChatRooms
  rpc, rop, rarg,   \* position of each Client's readPump inside a handler
  clients,          \* the registry: userID -> Client
  chatRooms,        \* keys of the chatRooms map
  roomClients,      \* ChatRoom.Clients: userID -> Client
  roomReaders,      \* read holds on ChatRoom.mu
  broadcastQueue,
  bwPc, bwCur,      \* startBroadcastWorker
  hbPc, hbTodo, hbUser, hbRooms, hbRoom,   \* heartbeatChecker
  bus,              \* payloads published on chat:broadcast, not yet received
  onlineKey,        \* users whose key online:<user> exists
  onlineSet,        \* members of the set online:users
  markOnline,       \* pending presence goroutines of HandleConnection
  unread,           \* value of unread:<user>:<chat>, 0 when the key is absent
  readDel,          \* pending Del goroutines of handleReadMessage
  dbMessages,       \* rows of the table `messages`
  ccQueue,          \* ChatController.messageQueue
  ccPush,           \* pending sendMessageToUser goroutines of processMessage
  csQueue,          \* ChatService.messageQueue
  procQueue,        \* ChatService.processQueue
  lastMessage,      \* chats.last_message, as the id of the message whose content it holds
  lastCreated,      \* history: the row of each conversation that was created last
  sent,             \* history: the inbound frames accepted so far, by identity
  enqLog,           \* history: every frame ever enqueued on each Client.Send
  fullClosed,       \* history: Clients closed because their Send was full
  deliveredSince,   \* history: chat messages of others handed to a user since the
                    \* user's last reset of that chat's unread counter
  oversize,         \* history: accepted frames whose Content is longer than 1000 bytes
  reply,            \* history: what SendMessage answered to each HTTP request
  allCur,           \* the frame of a BroadcastToAll inside its read section, or NoMsg
  writing,          \* a write of writePump on Client.Connection is in progress
  wsNext,           \* ChatController.HandleWebSocket: the next connection to upgrade
  wsUser,           \* its user_id query parameter
  wsPc,             \* where its handler is
  ccClients,        \* cc.clients: user -> connection
  wStopped,         \* writePump of the Client has returned
  roomMade,         \* ChatRoom objects made so far for each conversation
  rmiss,            \* history: the conversations whose room a Client's
                    \* getOrCreateChatRoom did not find at its first look
  loops             \* goroutines of ChatController and ChatService objects that loop
                    \* for the life of the process: queue workers and sweep loops

connVars == <<nextConn, cID, cOpen, cSend, cChatRooms, rpc, rop, rarg>>
regVars == <<clients, chatRooms, roomClients, roomReaders>>
bwVars == <<bwPc, bwCur>>
hbVars == <<hbPc, hbTodo, hbUser, hbRooms, hbRoom>>
redisVars == <<onlineKey, onlineSet, markOnline, unread, readDel>>
sumVars == <<lastMessage, lastCreated>>
httpVars == <<dbMessages, ccQueue, ccPush, csQueue, procQueue, sumVars>>
histVars == <<enqLog, fullClosed, deliveredSince, oversize, reply>>
joinVars == <<roomMade, rmiss>>
wsVars == <<wsNext, wsUser, wsPc, ccClients>>
sideVars == <<writing, wsVars, wStopped>>
svcVars == <<loops, allCur, joinVars, sideVars>>
vars == <<redisUp, connVars, regVars, broadcastQueue, bwVars, hbVars, bus,
          redisVars, httpVars, sent, histVars, svcVars>>

\* The state of the program and of its stores, without the history variables
progVars == <<redisUp, connVars, regVars, broadcastQueue, bwVars, hbVars, bus,
              redisVars, httpVars, svcVars>>

\* NewChatController: startMessageWorkers (3 messageWorker) and heartbeatCheck
ControllerLoops == 3 + 1

\* NewChatService: startWorkers (5 messageSender, 3 messageProcessor) and
\* cleanupOnlineUsers
ServiceLoops == 5 + 3 + 1

\* SetupRoutes evaluates controllers.NewChatController() once for each of the nine
\* routes of /chats while it registers them
StartupLoops == 9 * ControllerLoops

NoMsg == [type |-> "none", chat |-> NoChat, id |-> 0, from |-> NoUser]

\* BroadcastMessage{Type, ChatID, Data}; Data carries the sender and the frame's identity.
BroadcastMessage(t, c, n, u) == [type |-> t, chat |-> c, id |-> n, from |-> u]

Allocated == 1..(nextConn - 1)

\* Members of a room: the values of ChatRoom.Clients
RoomMembers(c) == {roomClients[c][u] : u \in Everyone} \ {NoConn}

\* An inbound frame or request the server accepted, and the entry point that took it
Accepted(b, via) == [frame |-> b, via |-> via]

\* Identity of the next accepted frame or request
NextId == Len(sent) + 1

\* The payloads that handleChatMessage publishes on chat:broadcast
Payloads == {BroadcastMessage("message", c, n, u) : c \in Chats, n \in 1..MaxMsgs, u \in Everyone}

\* select { case q <- m: default: }
TrySend(q, cap, m) == IF Len(q) < cap THEN Append(q, m) ELSE q

Init ==
  /\ redisUp \in BOOLEAN
  /\ nextConn = 1
  /\ cID = [k \in ConnIds |-> NoUser]
  /\ cOpen = [k \in ConnIds |-> FALSE]
  /\ cSend = [k \in ConnIds |-> <<>>]
  /\ cChatRooms = [k \in ConnIds |-> {}]
  /\ rpc = [k \in ConnIds |-> "read"]
  /\ rop = [k \in ConnIds |-> "none"]
  /\ rarg = [k \in ConnIds |-> NoChat]
  /\ clients = [u \in Everyone |-> NoConn]
  /\ chatRooms = {}
  /\ roomClients = [c \in Chats |-> [u \in Everyone |-> NoConn]]
  /\ roomReaders = [c \in Chats |-> 0]
  /\ broadcastQueue = <<>>
  /\ bwPc = "idle" /\ bwCur = NoMsg
  /\ hbPc = "idle" /\ hbTodo = {} /\ hbUser = NoUser /\ hbRooms = {} /\ hbRoom = NoChat
  /\ bus = {}
  /\ onlineKey = {} /\ onlineSet = {} /\ markOnline = {}
  /\ unread = [u \in Everyone |-> [c \in Chats |-> 0]]
  /\ readDel = {}
  /\ dbMessages = {}
  /\ ccQueue = {} /\ ccPush = {} /\ csQueue = {} /\ procQueue = {}
  /\ lastMessage = [c \in Chats |-> 0]
  /\ lastCreated = [c \in Chats |-> 0]
  /\ sent = <<>>
  /\ enqLog = [k \in ConnIds |-> <<>>]
  /\ fullClosed = {}
  /\ deliveredSince = [u \in Everyone |-> [c \in Chats |-> {}]]
  /\ oversize = {}
  /\ reply = [n \in 1..MaxMsgs |-> "none"]
  /\ loops = StartupLoops
  /\ allCur = NoMsg
  /\ writing = [k \in ConnIds |-> FALSE]
  /\ wsNext = 1
  /\ wsUser = [k \in ConnIds |-> NoUser]
  /\ wsPc = [k \in ConnIds |-> "none"]
  /\ ccClients = [u \in Everyone |-> NoConn]
  /\ wStopped = [k \in ConnIds |-> FALSE]
  /\ roomMade = [c \in Chats |-> 0]
  /\ rmiss = [k \in ConnIds |-> {}]

\* ------------------------------------------------------- HandleConnection
\* Read holds on clientsMutex: the heartbeat sweep from its tick to the end of its
\* walk, and BroadcastToAll from its RLock to its return
clientsMutexReaders ==
  (IF hbPc = "idle" THEN 0 ELSE 1) + (IF allCur = NoMsg THEN 0 ELSE 1)

\* Upgrade; clients[userID] = client under clientsMutex.Lock(), which waits while
\* a read lock is held; the presence goroutine; the pumps start.
HandleConnection(u) ==
  /\ nextConn <= MaxConns
  /\ clientsMutexReaders = 0
  /\ LET k == nextConn IN
     /\ nextConn' = k + 1
     /\ cID' = [cID EXCEPT ![k] = u]
     /\ cOpen' = [cOpen EXCEPT ![k] = TRUE]
     /\ clients' = [clients EXCEPT ![u] = k]
  /\ markOnline' = IF redisUp THEN markOnline \cup {u} ELSE markOnline
  /\ UNCHANGED <<redisUp, svcVars, httpVars, cSend, cChatRooms, rpc, rop, rarg, chatRooms, roomClients,
                 roomReaders, broadcastQueue, bwVars, hbVars, bus, onlineKey,
                 onlineSet, unread, readDel, sent, histVars>>

\* ---------------------------------------------------------------- readPump
\* The loop is in ReadMessage on an open connection. On a closed connection
\* ReadMessage fails and the loop ends; writePump ends at its next write.
Reading(k) == k \in Allocated /\ rpc[k] = "read" /\ cOpen[k]

\* ReadMessage fails on an open connection (the peer went away, or the 60 s read
\* deadline passed with no pong): the loop ends and the deferred Close runs.
readPumpFail(k) ==
  /\ Reading(k)
  /\ cOpen' = [cOpen EXCEPT ![k] = FALSE]
  /\ UNCHANGED <<redisUp, svcVars, httpVars, nextConn, cID, cSend, cChatRooms, rpc, rop, rarg,
                 regVars, broadcastQueue, bwVars, hbVars, bus, redisVars, sent,
                 histVars>>

\* The peer closes the socket or the network drops it, at any point of the read
\* loop: from now on every write on the connection fails, and so does the next
\* ReadMessage. A handler that is running goes on to its end.
peerClose(k) ==
  /\ k \in Allocated /\ cOpen[k]
  /\ cOpen' = [cOpen EXCEPT ![k] = FALSE]
  /\ UNCHANGED <<redisUp, svcVars, httpVars, nextConn, cID, cSend, cChatRooms, rpc, rop,
                 rarg, regVars, broadcastQueue, bwVars, hbVars, bus, redisVars, sent,
                 histVars>>

\* A publication that does not look at config.RedisClient
PublishAlways(b) == bus \cup {b}

\* if config.RedisClient != nil { go func() { Publish(redisCtx, "chat:broadcast", data) }() }
Publish(b) == IF redisUp THEN bus \cup {b} ELSE bus

\* case "message": handleChatMessage for a frame with a ChatID and a Content of
\* class x. An empty Content makes the handler return at once, with nothing changed
\* and nothing sent back; any other Content, whatever its length, and any sender,
\* participant or not, is put on the broadcast queue (or dropped when the queue is
\* full) and published.
handleChatFrame(k, c, x) ==
  /\ Reading(k)
  /\ Len(sent) < MaxMsgs
  /\ x # "empty"
  /\ LET b == BroadcastMessage("message", c, NextId, cID[k]) IN
     /\ broadcastQueue' = TrySend(broadcastQueue, BroadcastCap, b)
     /\ bus' = Publish(b)
     /\ sent' = Append(sent, Accepted(b, "ws"))
  /\ oversize' = IF x = "long" THEN oversize \cup {NextId} ELSE oversize
  /\ UNCHANGED <<redisUp, svcVars, httpVars, connVars, regVars, bwVars, hbVars, redisVars,
                 enqLog, fullClosed, deliveredSince, reply>>

\* case "message" with a Content of 1 to 1000 bytes
handleChatMessage(k, c) == handleChatFrame(k, c, "ok")

\* A handler that closes the connection
CloseOn(open, k) == [open EXCEPT ![k] = FALSE]

\* The connections after the default branch of handleMessage, which only logs
AfterDefault(open, k) == open

\* default: a frame whose type has no case in handleMessage; log.Printf, and
\* readPump goes back to ReadMessage
handleMessageDefault(k) ==
  /\ Reading(k)
  /\ Len(sent) < MaxMsgs
  /\ sent' = Append(sent, Accepted(BroadcastMessage("unknown", NoChat, NextId, cID[k]), "ws"))
  /\ cOpen' = AfterDefault(cOpen, k)
  /\ UNCHANGED <<redisUp, svcVars, httpVars, nextConn, cID, cSend, cChatRooms, rpc, rop, rarg,
                 regVars, broadcastQueue, bwVars, hbVars, bus, redisVars, histVars>>

\* case "read"
handleReadMessage(k, c) ==
  /\ Reading(k)
  /\ Len(sent) < MaxMsgs
  /\ readDel' = IF redisUp THEN readDel \cup {<<cID[k], c>>} ELSE readDel
  /\ LET b == BroadcastMessage("read", c, NextId, cID[k]) IN
     /\ broadcastQueue' = TrySend(broadcastQueue, BroadcastCap, b)
     /\ sent' = Append(sent, Accepted(b, "ws"))
  /\ UNCHANGED <<redisUp, svcVars, httpVars, connVars, regVars, bwVars, hbVars, bus, onlineKey, onlineSet,
                 markOnline, unread, histVars>>

\* chatRoom.mu.Lock(); update chatRoom.Clients; Unlock(). With read holds on the
\* lock the caller waits for them to be released.
RoomSection(k, c, op) ==
  IF roomReaders[c] = 0
  THEN /\ roomClients' = [roomClients EXCEPT
                            ![c][cID[k]] = IF op = "join" THEN k ELSE NoConn]
       /\ rpc' = [rpc EXCEPT ![k] = "selfLock"]
  ELSE /\ rpc' = [rpc EXCEPT ![k] = "roomWait"]
       /\ UNCHANGED roomClients

\* A second look that always finds no room
NoRecheck(c) == FALSE

\* getOrCreateChatRoom: chatRoomsMutex.Lock(); room, exists = chatRooms[chatID],
\* the second look, made under the exclusive lock
Recheck(c) == c \in chatRooms

\* &ChatRoom{ID: chatID, Clients: make(map[string]*Client)}
NewRoom == [u \in Everyone |-> NoConn]

\* case "join_chat", step by step. getOrCreateChatRoom: the first look under
\* chatRoomsMutex.RLock()
joinLookup(k, c) ==
  /\ Reading(k)
  /\ rop' = [rop EXCEPT ![k] = "join"]
  /\ rarg' = [rarg EXCEPT ![k] = c]
  /\ IF c \in chatRooms
     THEN rpc' = [rpc EXCEPT ![k] = "roomLock"] /\ UNCHANGED rmiss
     ELSE /\ rpc' = [rpc EXCEPT ![k] = "create"]
          /\ rmiss' = [rmiss EXCEPT ![k] = @ \cup {c}]
  /\ UNCHANGED <<redisUp, sideVars, loops, allCur, roomMade, httpVars, nextConn, cID, cOpen, cSend,
                 cChatRooms, regVars, broadcastQueue, bwVars, hbVars, bus, redisVars,
                 sent, histVars>>

\* getOrCreateChatRoom after a first look that found nothing: Lock(), the second
\* look, and a new room put in the table when there is still none; Unlock()
joinCreate(k) ==
  /\ k \in Allocated /\ rpc[k] = "create"
  /\ rpc' = [rpc EXCEPT ![k] = "roomLock"]
  /\ LET c == rarg[k] IN
     IF Recheck(c)
     THEN UNCHANGED <<chatRooms, roomClients, roomMade>>
     ELSE /\ chatRooms' = chatRooms \cup {c}
          /\ roomClients' = [roomClients EXCEPT ![c] = NewRoom]
          /\ roomMade' = [roomMade EXCEPT ![c] = @ + 1]
  /\ UNCHANGED <<redisUp, sideVars, loops, allCur, rmiss, httpVars, nextConn, cID, cOpen, cSend,
                 cChatRooms, rop, rarg, clients, roomReaders, broadcastQueue, bwVars,
                 hbVars, bus, redisVars, sent, histVars>>

\* case "join_chat": getOrCreateChatRoom, then the room section. A room created
\* here is visible to the broadcast worker before this handler locks it.
handleJoinChat(k, c) ==
  /\ Reading(k)
  /\ rop' = [rop EXCEPT ![k] = "join"]
  /\ rarg' = [rarg EXCEPT ![k] = c]
  /\ chatRooms' = chatRooms \cup {c}
  /\ roomMade' = IF c \in chatRooms THEN roomMade ELSE [roomMade EXCEPT ![c] = @ + 1]
  /\ IF c \in chatRooms
     THEN RoomSection(k, c, "join")
     ELSE rpc' = [rpc EXCEPT ![k] = "roomLock"] /\ UNCHANGED roomClients
  /\ UNCHANGED <<redisUp, sideVars, loops, allCur, rmiss, httpVars, nextConn, cID, cOpen, cSend, cChatRooms, clients,
                 roomReaders, broadcastQueue, bwVars, hbVars, bus, redisVars, sent,
                 histVars>>

\* The room section of a join that created its room
roomLock(k) ==
  /\ k \in Allocated /\ rpc[k] = "roomLock"
  /\ RoomSection(k, rarg[k], rop[k])
  /\ UNCHANGED <<redisUp, svcVars, httpVars, nextConn, cID, cOpen, cSend, cChatRooms, rop, rarg, clients,
                 chatRooms, roomReaders, broadcastQueue, bwVars, hbVars, bus, redisVars,
                 sent, histVars>>

\* case "leave_chat": getChatRoom; an unknown room skips the room section
handleLeaveChat(k, c) ==
  /\ Reading(k)
  /\ rop' = [rop EXCEPT ![k] = "leave"]
  /\ rarg' = [rarg EXCEPT ![k] = c]
  /\ IF c \in chatRooms
     THEN RoomSection(k, c, "leave")
     ELSE rpc' = [rpc EXCEPT ![k] = "selfLock"] /\ UNCHANGED roomClients
  /\ UNCHANGED <<redisUp, svcVars, httpVars, nextConn, cID, cOpen, cSend, cChatRooms, clients, chatRooms,
                 roomReaders, broadcastQueue, bwVars, hbVars, bus, redisVars, sent,
                 histVars>>

\* The heartbeat holds client.mu of the Client it is removing.
ClientMuHeld(k) == hbPc \in {"evict", "evictWait"} /\ clients[hbUser] = k

\* c.mu.Lock(); update c.ChatRooms; Unlock(); back to ReadMessage
selfLock(k) ==
  /\ k \in Allocated /\ rpc[k] = "selfLock"
  /\ ~ClientMuHeld(k)
  /\ cChatRooms' = [cChatRooms EXCEPT
                      ![k] = IF rop[k] = "join" THEN @ \cup {rarg[k]} ELSE @ \ {rarg[k]}]
  /\ rpc' = [rpc EXCEPT ![k] = "read"]
  /\ rop' = [rop EXCEPT ![k] = "none"]
  /\ rarg' = [rarg EXCEPT ![k] = NoChat]
  /\ UNCHANGED <<redisUp, svcVars, httpVars, nextConn, cID, cOpen, cSend, regVars, broadcastQueue,
                 bwVars, hbVars, bus, redisVars, sent, histVars>>

\* --------------------------------------------------------------- writePump
\* case message := <-c.Send: WriteJSON succeeds
writePump(k) ==
  /\ k \in Allocated /\ cOpen[k]
  /\ cSend[k] # <<>>
  /\ cSend' = [cSend EXCEPT ![k] = Tail(@)]
  /\ UNCHANGED <<redisUp, svcVars, httpVars, nextConn, cID, cOpen, cChatRooms, rpc, rop, rarg,
                 regVars, broadcastQueue, bwVars, hbVars, bus, redisVars, sent,
                 histVars>>

\* writePump, step by step. case message := <-c.Send: SetWriteDeadline and the
\* call of c.Connection.WriteJSON(message)
writeStart(k) ==
  /\ k \in Allocated /\ cOpen[k]
  /\ ~writing[k]
  /\ cSend[k] # <<>>
  /\ cSend' = [cSend EXCEPT ![k] = Tail(@)]
  /\ writing' = [writing EXCEPT ![k] = TRUE]
  /\ UNCHANGED <<redisUp, loops, allCur, joinVars, wsVars, wStopped, httpVars, nextConn, cID, cOpen,
                 cChatRooms, rpc, rop, rarg, regVars, broadcastQueue, bwVars, hbVars, bus,
                 redisVars, sent, histVars>>

\* WriteJSON returns: with nil on an open connection, and the loop goes back to its
\* select; with an error on a closed one, and writePump ends
writeDone(k) ==
  /\ k \in Allocated /\ writing[k]
  /\ writing' = [writing EXCEPT ![k] = FALSE]
  /\ UNCHANGED <<redisUp, loops, allCur, joinVars, wsVars, wStopped, httpVars, connVars, regVars,
                 broadcastQueue, bwVars, hbVars, bus, redisVars, sent, histVars>>

\* ---------------------------------------------------- startBroadcastWorker
\* A goroutine that has called chatRoom.mu.Lock() and waits: sync.RWMutex then
\* holds back every later RLock() on that lock.
WriterWaiting(c) ==
  \/ \E k \in Allocated : rpc[k] = "roomWait" /\ rarg[k] = c
  \/ hbPc = "evictWait" /\ hbRoom = c

\* A fan-out that gives up at a member whose Send is full
RecipientsUntilFull(b) ==
  IF \E k \in RoomMembers(b.chat) : Len(cSend[k]) >= SendCap
  THEN {k \in RoomMembers(b.chat) : Len(cSend[k]) >= SendCap}
  ELSE RoomMembers(b.chat)

\* The members a broadcast is sent to
Recipients(b) == RoomMembers(b.chat)

\* select { case c.Send <- frame: default: c.Connection.Close() }: the default branch
SendFull(q) == Len(q) >= SendCap

\* The read holds on the room's lock once wg.Wait() has returned: the hold is
\* released by `defer chatRoom.mu.RUnlock()`, which runs when startBroadcastWorker
\* returns, and the function loops for as long as broadcastQueue is open.
HoldsAfterBroadcast(n) == n + 1

\* One round of `for broadcast := range broadcastQueue`: getChatRoom (a missing
\* room is skipped); RLock, which waits behind a waiting writer; one goroutine per
\* member, each a non-blocking send or a Close; wg.Wait().
startBroadcastWorker ==
  /\ bwPc = "idle"
  /\ broadcastQueue # <<>>
  /\ broadcastQueue' = Tail(broadcastQueue)
  /\ LET b == Head(broadcastQueue)
         to == Recipients(b)
         full == {k \in to : SendFull(cSend[k])} IN
     IF b.chat \notin chatRooms
     THEN UNCHANGED <<bwVars, roomReaders, cSend, cOpen, histVars>>
     ELSE IF WriterWaiting(b.chat)
     THEN /\ bwPc' = "rlock"
          /\ bwCur' = b
          /\ UNCHANGED <<roomReaders, cSend, cOpen, histVars>>
     ELSE /\ roomReaders' = [roomReaders EXCEPT ![b.chat] = HoldsAfterBroadcast(@)]
          /\ cSend' = [k \in ConnIds |->
                         IF k \in to \ full THEN Append(cSend[k], b) ELSE cSend[k]]
          /\ enqLog' = [k \in ConnIds |->
                          IF k \in to \ full THEN Append(enqLog[k], b) ELSE enqLog[k]]
          /\ cOpen' = [k \in ConnIds |-> IF k \in full THEN FALSE ELSE cOpen[k]]
          /\ fullClosed' = fullClosed \cup full
          /\ deliveredSince' =
               [u \in Everyone |-> [c \in Chats |->
                  IF /\ b.type = "message" /\ c = b.chat /\ u # b.from
                     /\ \E k \in to \ full : cID[k] = u
                  THEN deliveredSince[u][c] \cup {b.id}
                  ELSE deliveredSince[u][c]]]
          /\ UNCHANGED bwVars
  /\ UNCHANGED <<redisUp, svcVars, httpVars, nextConn, cID, cChatRooms, rpc, rop, rarg, clients,
                 chatRooms, roomClients, hbVars, bus, redisVars, sent, oversize,
                 reply>>

\* -------------------------------------------------------- subscribeToRedis
\* A payload of chat:broadcast reaches this process's subscription and is put
\* on the local broadcast queue, or dropped when the queue is full.
subscribeToRedis(b) ==
  /\ b \in bus
  /\ bus' = bus \ {b}
  /\ broadcastQueue' = TrySend(broadcastQueue, BroadcastCap, b)
  /\ UNCHANGED <<redisUp, svcVars, httpVars, connVars, regVars, bwVars, hbVars, redisVars, sent,
                 histVars>>

\* -------------------------------------------------------- heartbeatChecker
\* A tick: clientsMutex.RLock() and the walk over the registry begins.
hbTick ==
  /\ hbPc = "idle"
  /\ \E u \in Everyone : clients[u] # NoConn
  /\ hbTodo' = {u \in Everyone : clients[u] # NoConn}
  /\ hbPc' = "sweep"
  /\ UNCHANGED <<redisUp, svcVars, httpVars, connVars, regVars, broadcastQueue, bwVars, hbUser, hbRooms,
                 hbRoom, bus, redisVars, sent, histVars>>

\* The sweep is at an entry of the registry it has not visited yet: inside
\* client.Connection.WriteMessage(websocket.PingMessage, nil)
hbPinging == hbPc = "sweep" /\ hbTodo # {}

\* The sweep holds clientsMutex.RLock(), from its tick to the end of its walk
hbHoldsClientsMutex == hbPc # "idle"

\* The walk has visited every entry: clientsMutex.RUnlock()
AfterVisit(todo) == IF todo = {} THEN "idle" ELSE "sweep"

\* WriteMessage(PingMessage) succeeds on an open connection
hbPingOk(u) ==
  /\ hbPc = "sweep"
  /\ u \in hbTodo
  /\ cOpen[clients[u]]
  /\ hbTodo' = hbTodo \ {u}
  /\ hbPc' = AfterVisit(hbTodo')
  /\ UNCHANGED <<redisUp, svcVars, httpVars, connVars, regVars, broadcastQueue, bwVars, hbUser, hbRooms,
                 hbRoom, bus, redisVars, sent, histVars>>

\* The ping fails: client.mu.Lock() and the walk over client.ChatRooms begins
hbPingFail(u) ==
  /\ hbPc = "sweep"
  /\ u \in hbTodo
  /\ ~cOpen[clients[u]]
  /\ hbUser' = u
  /\ hbRooms' = cChatRooms[clients[u]]
  /\ hbPc' = "evict"
  /\ UNCHANGED <<redisUp, svcVars, httpVars, connVars, regVars, broadcastQueue, bwVars, hbTodo, hbRoom,
                 bus, redisVars, sent, histVars>>

\* room.mu.Lock(); delete(room.Clients, userID); Unlock(). With read holds on the
\* lock the sweep waits for them to be released.
hbEvictRoom(c) ==
  /\ hbPc = "evict"
  /\ c \in hbRooms
  /\ IF roomReaders[c] = 0
     THEN /\ roomClients' = [roomClients EXCEPT ![c][hbUser] = NoConn]
          /\ hbRooms' = hbRooms \ {c}
          /\ UNCHANGED <<hbPc, hbRoom>>
     ELSE /\ hbPc' = "evictWait"
          /\ hbRoom' = c
          /\ UNCHANGED <<roomClients, hbRooms>>
  /\ UNCHANGED <<redisUp, svcVars, httpVars, connVars, clients, chatRooms, roomReaders, broadcastQueue,
                 bwVars, hbTodo, hbUser, bus, redisVars, sent, histVars>>

\* client.mu.Unlock(); delete(clients, userID); Del online:<user>; SRem online:users
hbEvictClient ==
  /\ hbPc = "evict"
  /\ hbRooms = {}
  /\ clients' = [clients EXCEPT ![hbUser] = NoConn]
  /\ onlineKey' = IF redisUp THEN onlineKey \ {hbUser} ELSE onlineKey
  /\ onlineSet' = IF redisUp THEN onlineSet \ {hbUser} ELSE onlineSet
  /\ hbTodo' = hbTodo \ {hbUser}
  /\ hbUser' = NoUser
  /\ hbPc' = AfterVisit(hbTodo')
  /\ UNCHANGED <<redisUp, svcVars, httpVars, connVars, chatRooms, roomClients, roomReaders,
                 broadcastQueue, bwVars, hbRooms, hbRoom, bus, markOnline, unread,
                 readDel, sent, histVars>>

\* ---------------------------------------------------------- BroadcastToAll
\* BroadcastToAll(messageType, data): clientsMutex.RLock(); the walk over the
\* registry begins
BroadcastToAll ==
  /\ allCur = NoMsg
  /\ Len(sent) < MaxMsgs
  /\ LET b == BroadcastMessage("all", NoChat, NextId, NoUser) IN
     /\ allCur' = b
     /\ sent' = Append(sent, Accepted(b, "all"))
  /\ UNCHANGED <<redisUp, sideVars, loops, joinVars, connVars, regVars, broadcastQueue, bwVars, hbVars, bus,
                 redisVars, httpVars, histVars>>

\* One goroutine per registered Client, each a non-blocking send that gives up on
\* a full queue; wg.Wait(); the deferred RUnlock()
broadcastToAllDone ==
  /\ allCur # NoMsg
  /\ allCur' = NoMsg
  /\ LET to == {clients[u] : u \in Everyone} \ {NoConn} IN
     /\ cSend' = [k \in ConnIds |->
                    IF k \in to THEN TrySend(cSend[k], SendCap, allCur) ELSE cSend[k]]
     /\ enqLog' = [k \in ConnIds |->
                     IF k \in to /\ ~SendFull(cSend[k])
                     THEN Append(enqLog[k], allCur) ELSE enqLog[k]]
  /\ UNCHANGED <<redisUp, sideVars, loops, joinVars, nextConn, cID, cOpen, cChatRooms, rpc, rop, rarg, regVars,
                 broadcastQueue, bwVars, hbVars, bus, redisVars, httpVars, sent,
                 fullClosed, deliveredSince, oversize, reply>>

\* ------------------------------------------------------------------- Redis
\* The goroutine of HandleConnection: Set online:<user> (TTL 5 min); SAdd online:users
setOnline(u) ==
  /\ u \in markOnline
  /\ markOnline' = markOnline \ {u}
  /\ onlineKey' = onlineKey \cup {u}
  /\ onlineSet' = onlineSet \cup {u}
  /\ UNCHANGED <<redisUp, svcVars, httpVars, connVars, regVars, broadcastQueue, bwVars, hbVars, bus,
                 unread, readDel, sent, histVars>>

\* A counter that a read-acknowledgement lowers by one
Decr(cnt, u, c) == [cnt EXCEPT ![u][c] = @ - 1]

\* Del unread:<user>:<chat>: the key is removed and the counter reads 0
Del(cnt, u, c) == [cnt EXCEPT ![u][c] = 0]

\* The goroutine of handleReadMessage: Del unread:<user>:<chat>
delUnread(u, c) ==
  /\ <<u, c>> \in readDel
  /\ readDel' = readDel \ {<<u, c>>}
  /\ unread' = Del(unread, u, c)
  /\ deliveredSince' = [deliveredSince EXCEPT ![u][c] = {}]
  /\ UNCHANGED <<redisUp, svcVars, httpVars, connVars, regVars, broadcastQueue, bwVars, hbVars, bus,
                 onlineKey, onlineSet, markOnline, sent, enqLog, fullClosed, oversize, reply>>

\* The key online:<user> reaches its TTL
expireOnline(u) ==
  /\ u \in onlineKey
  /\ onlineKey' = onlineKey \ {u}
  /\ UNCHANGED <<redisUp, svcVars, httpVars, connVars, regVars, broadcastQueue, bwVars, hbVars, bus,
                 onlineSet, markOnline, unread, readDel, sent, histVars>>

\* ------------------------------------------------- the HTTP ingestion paths
\* Rows of chat_users: the participants of each conversation
ChatUsers(c) == Users

\* The participants a message of sender u is counted for and pushed to
Receivers(c, u) == ChatUsers(c) \ {u}

\* models.Message{ChatID, SenderID, Content, IsRead: false} as created by config.DB.Create
Message(n, c, u) == [id |-> n, chat |-> c, sender |-> u, isRead |-> FALSE]

\* An increment done by the caller, get and then set, whose get saw no count yet
SetToOne(cnt, to, c) ==
  [u \in Everyone |-> [d \in Chats |->
     IF u \in to /\ d = c THEN 1 ELSE cnt[u][d]]]

\* Incr unread:<user>:<chat> (followed by Expire, 7 days) for each user of `to`:
\* one INCR command of the store per key, which adds 1 to whatever the key holds
Incr(cnt, to, c) ==
  [u \in Everyone |-> [d \in Chats |->
     IF u \in to /\ d = c THEN cnt[u][d] + 1 ELSE cnt[u][d]]]

\* History: message n was handed to each user of `to`
Handed(h, to, c, n) ==
  [u \in Everyone |-> [d \in Chats |->
     IF u \in to /\ d = c THEN h[u][d] \cup {n} ELSE h[u][d]]]

\* config.DB.Create(&message) with the hook Message.AfterCreate, in one
\* transaction: the row, and the chat's last_message set to the row's content
Create(n, c, u, ok) ==
  /\ dbMessages' = IF ok THEN dbMessages \cup {Message(n, c, u)} ELSE dbMessages
  /\ lastMessage' = IF ok THEN [lastMessage EXCEPT ![c] = n] ELSE lastMessage
  /\ lastCreated' = IF ok THEN [lastCreated EXCEPT ![c] = n] ELSE lastCreated

\* A processMessage that starts its pushes whatever config.DB.Create returned
processMessageRegardless(n, c, u, ok) ==
  /\ Create(n, c, u, ok)
  /\ ccPush' = ccPush \cup {<<r, n, c>> : r \in Receivers(c, u)}

\* ChatController.processMessage: create the row; on success one goroutine
\* sendMessageToUser per participant other than the sender
processMessage(n, c, u, ok) ==
  /\ Create(n, c, u, ok)
  /\ ccPush' = IF ok THEN ccPush \cup {<<r, n, c>> : r \in Receivers(c, u)} ELSE ccPush

\* What ChatController.SendMessage writes back: 202 Accepted when the task went on
\* the queue; 201 Created after processMessage ran inline, whose error is not read
ccReply(queued, ok) == IF queued THEN "202" ELSE "201"

\* ChatController.SendMessage (POST /chats/:id/messages) of a participant: the task
\* is queued (202), or processed inline when the queue is full (201)
ccSendMessage(u, c) ==
  /\ Len(sent) < MaxMsgs
  /\ u \in ChatUsers(c)
  /\ sent' = Append(sent, Accepted(BroadcastMessage("message", c, NextId, u), "cc"))
  /\ IF Cardinality(ccQueue) < TaskCap
     THEN /\ ccQueue' = ccQueue \cup {NextId}
          /\ reply' = [reply EXCEPT ![NextId] = ccReply(TRUE, TRUE)]
          /\ UNCHANGED <<dbMessages, ccPush, sumVars>>
     ELSE /\ \E ok \in BOOLEAN :
               /\ processMessage(NextId, c, u, ok)
               /\ reply' = [reply EXCEPT ![NextId] = ccReply(FALSE, ok)]
          /\ UNCHANGED ccQueue
  /\ UNCHANGED <<redisUp, svcVars, connVars, regVars, broadcastQueue, bwVars, hbVars, bus,
                 redisVars, csQueue, procQueue, enqLog, fullClosed, deliveredSince,
                 oversize>>

\* binding:"required,max=1000" of ChatController.SendMessage; content == "" and
\* len(content) > 1000 of ChatService.SendMessage
ValidContent(x) == x = "ok"

\* POST /chats/:id/messages by user u with a content of class x: 400 for a content
\* that fails the binding, 403 for a user without a row in chat_users, both
\* before anything is touched
ccRequest(u, c, x) == ValidContent(x) /\ ccSendMessage(u, c)

\* ChatController.messageWorker: one of the 3 workers takes a task
messageWorker(n) ==
  /\ n \in ccQueue
  /\ ccQueue' = ccQueue \ {n}
  /\ \E ok \in BOOLEAN : processMessage(n, sent[n].frame.chat, sent[n].frame.from, ok)
  /\ UNCHANGED <<redisUp, svcVars, connVars, regVars, broadcastQueue, bwVars, hbVars, bus,
                 redisVars, csQueue, procQueue, sent, histVars>>

\* ChatController.sendMessageToUser: WriteJSON when cc.clients has the user (the
\* registry of ChatController.HandleWebSocket, which holds no Client of package
\* websocket); Incr and Expire of the unread key
sendMessageToUser(r, n, c) ==
  /\ <<r, n, c>> \in ccPush
  /\ ccPush' = ccPush \ {<<r, n, c>>}
  /\ unread' = IF redisUp THEN Incr(unread, {r}, c) ELSE unread
  /\ deliveredSince' = Handed(deliveredSince, {r}, c, n)
  /\ UNCHANGED <<redisUp, svcVars, connVars, regVars, broadcastQueue, bwVars, hbVars, bus,
                 onlineKey, onlineSet, markOnline, readDel, dbMessages, ccQueue,
                 csQueue, procQueue, sumVars, sent, enqLog, fullClosed, oversize, reply>>

\* ChatService.processMessageDirect: create the row; on success hand the message
\* to processQueue
processMessageDirect(n, c, u, ok) ==
  /\ Create(n, c, u, ok)
  /\ procQueue' = IF ok THEN procQueue \cup {n} ELSE procQueue

\* What ChatService.SendMessage returns: a message and a nil error when the task
\* went on the queue; the result of processMessageDirect when it ran inline
csReply(queued, ok) == IF queued \/ ok THEN "ok" ELSE "error"

\* ChatService.SendMessage of a participant: the task is queued, or processed
\* inline when the queue is full
csSendMessage(u, c) ==
  /\ Len(sent) < MaxMsgs
  /\ u \in ChatUsers(c)
  /\ sent' = Append(sent, Accepted(BroadcastMessage("message", c, NextId, u), "cs"))
  /\ IF Cardinality(csQueue) < TaskCap
     THEN /\ csQueue' = csQueue \cup {NextId}
          /\ reply' = [reply EXCEPT ![NextId] = csReply(TRUE, TRUE)]
          /\ UNCHANGED <<dbMessages, procQueue, sumVars>>
     ELSE /\ \E ok \in BOOLEAN :
               /\ processMessageDirect(NextId, c, u, ok)
               /\ reply' = [reply EXCEPT ![NextId] = csReply(FALSE, ok)]
          /\ UNCHANGED csQueue
  /\ UNCHANGED <<redisUp, svcVars, connVars, regVars, broadcastQueue, bwVars, hbVars, bus,
                 redisVars, ccQueue, ccPush, enqLog, fullClosed, deliveredSince,
                 oversize>>

\* ChatService.SendMessage(chatID, userID, content) with a content of class x: an
\* error for an empty or too long content and for a user without a row in
\* chat_users, both before anything is touched
csRequest(u, c, x) == ValidContent(x) /\ csSendMessage(u, c)

\* ChatService.messageSender: one of the 5 workers takes a task
messageSender(n) ==
  /\ n \in csQueue
  /\ csQueue' = csQueue \ {n}
  /\ \E ok \in BOOLEAN : processMessageDirect(n, sent[n].frame.chat, sent[n].frame.from, ok)
  /\ UNCHANGED <<redisUp, svcVars, connVars, regVars, broadcastQueue, bwVars, hbVars, bus,
                 redisVars, ccQueue, ccPush, sent, histVars>>

\* processAfterSend, step 1: Updates(last_message: message.Content) on the chat row
SetSummary(last, n, c) == [last EXCEPT ![c] = n]

\* ChatService.messageProcessor: one of the 3 workers runs processAfterSend. The
\* chat row is updated and the participants are read (either can fail and end the
\* call); Incr and Expire for every participant but the sender; the cached chat
\* lists are dropped; the message is published on chat:message, a channel that
\* nothing subscribes to.
messageProcessor(n) ==
  /\ n \in procQueue
  /\ procQueue' = procQueue \ {n}
  /\ LET c == sent[n].frame.chat
         to == Receivers(c, sent[n].frame.from) IN
     \E upd \in BOOLEAN : \E ok \in BOOLEAN :
       /\ upd \/ ~ok
       /\ lastMessage' = IF upd THEN SetSummary(lastMessage, n, c) ELSE lastMessage
       /\ unread' = IF ok /\ redisUp THEN Incr(unread, to, c) ELSE unread
       /\ deliveredSince' = IF ok THEN Handed(deliveredSince, to, c, n)
                                  ELSE deliveredSince
  /\ UNCHANGED <<redisUp, svcVars, connVars, regVars, broadcastQueue, bwVars, hbVars, bus,
                 onlineKey, onlineSet, markOnline, readDel, dbMessages, ccQueue,
                 ccPush, csQueue, lastCreated, sent, enqLog, fullClosed, oversize, reply>>

\* An update that turns the flag over
FlipRead(m) == [m EXCEPT !.isRead = ~@]

\* Update("is_read", true) on a row
SetRead(m) == [m EXCEPT !.isRead = TRUE]

\* ChatService.MarkAsRead: every message of the chat sent by someone else becomes
\* read; Del of the unread key. When the update of the table fails the call
\* returns the error before the Del and nothing has changed.
csMarkAsRead(c, u) ==
  /\ dbMessages' = {IF m.chat = c /\ m.sender # u THEN SetRead(m) ELSE m :
                      m \in dbMessages}
  /\ unread' = IF redisUp THEN Del(unread, u, c) ELSE unread
  /\ deliveredSince' = [deliveredSince EXCEPT ![u][c] = {}]

\* A read-acknowledgement over HTTP, as the call of ChatService.MarkAsRead
MarkAsRead(c, u) ==
  /\ csMarkAsRead(c, u)
  /\ UNCHANGED <<redisUp, svcVars, connVars, regVars, broadcastQueue, bwVars, hbVars, bus,
                 onlineKey, onlineSet, markOnline, readDel, ccQueue, ccPush, csQueue,
                 procQueue, sumVars, sent, enqLog, fullClosed, oversize, reply>>

\* ChatController.GetMessages (GET /chats/:id/messages) of a participant on a page
\* that is not cached: the goroutine that marks the messages of the others read
\* and, whatever became of that update, removes the unread key
ccGetMessages(c, u) ==
  /\ u \in ChatUsers(c)
  /\ \E ok \in BOOLEAN :
       dbMessages' = IF ok
                     THEN {IF m.chat = c /\ m.sender # u THEN SetRead(m) ELSE m :
                             m \in dbMessages}
                     ELSE dbMessages
  /\ unread' = IF redisUp THEN Del(unread, u, c) ELSE unread
  /\ deliveredSince' = [deliveredSince EXCEPT ![u][c] = {}]
  /\ UNCHANGED <<redisUp, svcVars, connVars, regVars, broadcastQueue, bwVars, hbVars, bus,
                 onlineKey, onlineSet, markOnline, readDel, ccQueue, ccPush, csQueue,
                 procQueue, sumVars, sent, enqLog, fullClosed, oversize, reply>>

\* services.NewChatService(): startWorkers and `go cs.cleanupOnlineUsers()`. The
\* loops range over channels that nothing closes and over a ticker, so they never
\* end, whatever becomes of the object.
NewChatService(n) == n + ServiceLoops

\* The service objects made over a run are bounded by MaxServices
MayServe == loops < StartupLoops + MaxServices * ServiceLoops

\* ChatController.MarkAsRead (PUT /chats/:id/read): a new ChatService, then its
\* MarkAsRead
ccMarkAsRead(c, u) ==
  /\ MayServe
  /\ loops' = NewChatService(loops)
  /\ UNCHANGED <<allCur, joinVars, sideVars>>
  /\ csMarkAsRead(c, u)
  /\ UNCHANGED <<redisUp, connVars, regVars, broadcastQueue, bwVars, hbVars, bus,
                 onlineKey, onlineSet, markOnline, readDel, ccQueue, ccPush, csQueue,
                 procQueue, sumVars, sent, enqLog, fullClosed, oversize, reply>>

\* ChatController.GetOnlineUsers (GET /chats/online-users): a new ChatService, then
\* SMembers online:users
ccGetOnlineUsers ==
  /\ MayServe
  /\ loops' = NewChatService(loops)
  /\ UNCHANGED <<allCur, joinVars, sideVars>>
  /\ UNCHANGED <<redisUp, connVars, regVars, broadcastQueue, bwVars, hbVars, bus,
                 redisVars, httpVars, sent, histVars>>

\* The key unread:<user>:<chat> reaches its 7 day TTL
expireUnread(u, c) ==
  /\ unread[u][c] > 0
  /\ unread' = [unread EXCEPT ![u][c] = 0]
  /\ UNCHANGED <<redisUp, svcVars, connVars, regVars, broadcastQueue, bwVars, hbVars, bus,
                 onlineKey, onlineSet, markOnline, readDel, httpVars, sent, histVars>>

\* ---------------------------------------------------------- specifications
\* Connections, their frames, the broadcast worker and the bus
ChatNext ==
  \/ \E u \in Users : HandleConnection(u)
  \/ \E k \in ConnIds : readPumpFail(k)
  \/ \E k \in ConnIds, c \in Chats :
       \/ handleChatMessage(k, c)
       \/ handleJoinChat(k, c)
       \/ handleLeaveChat(k, c)
  \/ \E k \in ConnIds : roomLock(k) \/ selfLock(k)
  \/ \E k \in ConnIds : writePump(k)
  \/ startBroadcastWorker
  \/ \E b \in Payloads : subscribeToRedis(b)

\* The liveness sweep
HeartbeatNext ==
  \/ hbTick \/ hbEvictClient
  \/ \E u \in Users : hbPingOk(u) \/ hbPingFail(u)
  \/ \E c \in Chats : hbEvictRoom(c)

\* The presence keys
PresenceNext ==
  \E u \in Users : setOnline(u) \/ expireOnline(u)

\* Read acknowledgements over a live connection
ReadNext ==
  \/ \E k \in ConnIds, c \in Chats : handleReadMessage(k, c)
  \/ \E u \in Users, c \in Chats : delUnread(u, c)

\* The HTTP endpoints, their queues and workers, and the unread keys' TTL
HttpNext ==
  \/ \E u \in Users, c \in Chats : ccSendMessage(u, c) \/ csSendMessage(u, c)
  \/ \E n \in 1..MaxMsgs : messageWorker(n) \/ messageSender(n) \/ messageProcessor(n)
  \/ \E r \in Users, n \in 1..MaxMsgs, c \in Chats : sendMessageToUser(r, n, c)
  \/ \E u \in Users, c \in Chats : MarkAsRead(c, u) \/ expireUnread(u, c)

Next == ChatNext \/ HeartbeatNext \/ PresenceNext \/ ReadNext \/ HttpNext

Spec == Init /\ [][Next]_vars

\* The live connections alone
SpecChat == Init /\ [][ChatNext]_vars

\* Package websocket: connections, frames, the worker, the bus and the sweep
SpecLive == Init /\ [][ChatNext \/ HeartbeatNext \/ ReadNext]_vars

\* Connections that stay, join rooms and send chat messages, with the delivery
\* machinery behind them
DeliverNext ==
  \/ \E u \in Users : HandleConnection(u)
  \/ \E k \in ConnIds, c \in Chats : handleChatMessage(k, c) \/ handleJoinChat(k, c)
  \/ \E k \in ConnIds : roomLock(k) \/ selfLock(k) \/ writePump(k)
  \/ startBroadcastWorker
  \/ \E b \in Payloads : subscribeToRedis(b)

\* Every way a message is sent, delivered and acknowledged as read
SpecUnread == Init /\ [][DeliverNext \/ ReadNext \/ HttpNext]_vars

\* A conversation of two: X connects first and sends, over its connection and over
\* POST /chats/:id/messages; Y connects second, joins the room and may go away.
RelayNext ==
  \/ nextConn = 1 /\ HandleConnection("X")
  \/ nextConn = 2 /\ HandleConnection("Y")
  \/ handleChatMessage(1, "c1")
  \/ ccSendMessage("X", "c1")
  \/ handleJoinChat(2, "c1")
  \/ readPumpFail(2)
  \/ \E k \in ConnIds : roomLock(k) \/ selfLock(k) \/ writePump(k)
  \/ startBroadcastWorker
  \/ \E b \in Payloads : subscribeToRedis(b)
  \/ HeartbeatNext
  \/ \E u \in Users : setOnline(u) \/ expireOnline(u)
  \/ \E n \in 1..MaxMsgs : messageWorker(n)
  \/ \E r \in Users, n \in 1..MaxMsgs, c \in Chats : sendMessageToUser(r, n, c)

\* Every goroutine that can take a step eventually takes one; the ticker of the
\* heartbeat keeps ticking and a key with a TTL expires.
Fairness ==
  /\ \A k \in ConnIds : WF_vars(roomLock(k) \/ selfLock(k))
  /\ \A k \in ConnIds : WF_vars(writePump(k))
  /\ WF_vars(startBroadcastWorker)
  /\ WF_vars(\E b \in Payloads : subscribeToRedis(b))
  /\ WF_vars(HeartbeatNext)
  /\ \A u \in Users : WF_vars(setOnline(u))
  /\ \A u \in Users : WF_vars(expireOnline(u))
  /\ \A n \in 1..MaxMsgs : WF_vars(messageWorker(n))
  /\ \A r \in Users, n \in 1..MaxMsgs, c \in Chats : WF_vars(sendMessageToUser(r, n, c))

SpecRelay == Init /\ [][RelayNext]_vars /\ Fairness

\* The live connections with frames of every type that handleMessage can meet
FramesNext == ChatNext \/ \E k \in ConnIds : handleMessageDefault(k)

SpecFrames == Init /\ [][FramesNext]_vars

\* Every way a chat message comes in, from any user and with any content, and what
\* becomes of it: connections that stay and join rooms, the broadcast worker and
\* the bus, the HTTP endpoints with their queues and workers
IngestNext ==
  \/ \E u \in Everyone : HandleConnection(u)
  \/ \E k \in ConnIds, c \in Chats, x \in Contents : handleChatFrame(k, c, x)
  \/ \E k \in ConnIds, c \in Chats : handleJoinChat(k, c)
  \/ \E k \in ConnIds : roomLock(k) \/ selfLock(k)
  \/ startBroadcastWorker
  \/ \E b \in Payloads : subscribeToRedis(b)
  \/ \E u \in Everyone, c \in Chats, x \in Contents : ccRequest(u, c, x) \/ csRequest(u, c, x)
  \/ \E n \in 1..MaxMsgs : messageWorker(n) \/ messageSender(n) \/ messageProcessor(n)
  \/ \E r \in Users, n \in 1..MaxMsgs, c \in Chats : sendMessageToUser(r, n, c)

SpecIngest == Init /\ [][IngestNext]_vars

\* The HTTP endpoints with their workers, whose deliveries run side by side, and
\* the read-acknowledgements; no key reaches its TTL
CountNext ==
  \/ \E u \in Users, c \in Chats : ccSendMessage(u, c) \/ csSendMessage(u, c)
  \/ \E n \in 1..MaxMsgs : messageWorker(n) \/ messageSender(n) \/ messageProcessor(n)
  \/ \E r \in Users, n \in 1..MaxMsgs, c \in Chats : sendMessageToUser(r, n, c)
  \/ \E u \in Users, c \in Chats : MarkAsRead(c, u) \/ ccGetMessages(c, u)

SpecCount == Init /\ [][CountNext]_vars

\* The requests of /chats after startup: messages posted and worked off, read
\* acknowledgements and the list of online users
PoolNext ==
  \/ \E u \in Users, c \in Chats : ccSendMessage(u, c)
  \/ \E n \in 1..MaxMsgs : messageWorker(n)
  \/ \E r \in Users, n \in 1..MaxMsgs, c \in Chats : sendMessageToUser(r, n, c)
  \/ \E u \in Users, c \in Chats : ccMarkAsRead(c, u)
  \/ ccGetOnlineUsers

SpecPool == Init /\ [][PoolNext]_vars

\* Connections that join and leave rooms, send chat messages and go away at any
\* moment, with the broadcast worker and the liveness sweep
SweepNext ==
  \/ \E u \in Users : HandleConnection(u)
  \/ \E k \in ConnIds : peerClose(k)
  \/ \E k \in ConnIds, c \in Chats :
       \/ handleChatMessage(k, c)
       \/ handleJoinChat(k, c)
       \/ handleLeaveChat(k, c)
  \/ \E k \in ConnIds : roomLock(k) \/ selfLock(k)
  \/ startBroadcastWorker
  \/ HeartbeatNext
  \/ \E u \in Users : setOnline(u)

SpecSweep == Init /\ [][SweepNext]_vars

\* The tasks that take clientsMutex: connections that register, join rooms and go
\* away, the liveness sweep and BroadcastToAll
RegistryNext ==
  \/ \E u \in Users : HandleConnection(u)
  \/ \E k \in ConnIds : peerClose(k)
  \/ \E k \in ConnIds, c \in Chats : handleJoinChat(k, c)
  \/ \E k \in ConnIds : roomLock(k) \/ selfLock(k) \/ writePump(k)
  \/ HeartbeatNext
  \/ BroadcastToAll \/ broadcastToAllDone

SpecRegistry == Init /\ [][RegistryNext]_vars

\* Connections whose joins run side by side, getOrCreateChatRoom taken step by
\* step, with chat messages and the broadcast worker
JoinNext ==
  \/ \E u \in Users : HandleConnection(u)
  \/ \E k \in ConnIds, c \in Chats : joinLookup(k, c) \/ handleChatMessage(k, c)
  \/ \E k \in ConnIds : joinCreate(k) \/ roomLock(k) \/ selfLock(k) \/ writePump(k)
  \/ startBroadcastWorker

SpecJoin == Init /\ [][JoinNext]_vars

\* Messages posted over HTTP and worked off by the pools of ChatController and
\* ChatService
SummaryNext ==
  \/ \E u \in Users, c \in Chats : ccSendMessage(u, c) \/ csSendMessage(u, c)
  \/ \E n \in 1..MaxMsgs : messageWorker(n) \/ messageSender(n) \/ messageProcessor(n)
  \/ \E r \in Users, n \in 1..MaxMsgs, c \in Chats : sendMessageToUser(r, n, c)

SpecSummary == Init /\ [][SummaryNext]_vars

\* The tasks that write on a connection's socket: writePump taken step by step
\* and the liveness sweep, with the frames that fill the outbound queues
WriteNext ==
  \/ \E u \in Users : HandleConnection(u)
  \/ \E k \in ConnIds : peerClose(k)
  \/ \E k \in ConnIds, c \in Chats : handleChatMessage(k, c) \/ handleJoinChat(k, c)
  \/ \E k \in ConnIds : roomLock(k) \/ selfLock(k)
  \/ \E k \in ConnIds : writeStart(k) \/ writeDone(k)
  \/ startBroadcastWorker
  \/ HeartbeatNext

SpecWrite == Init /\ [][WriteNext]_vars

\* ------------------------------------------- ChatController.HandleWebSocket
\* Upgrade, then cc.clients[userID] = conn under clientsMu
ccHandleWebSocket(u) ==
  /\ wsNext <= MaxConns
  /\ wsNext' = wsNext + 1
  /\ wsUser' = [wsUser EXCEPT ![wsNext] = u]
  /\ wsPc' = [wsPc EXCEPT ![wsNext] = "set"]
  /\ ccClients' = [ccClients EXCEPT ![u] = wsNext]
  /\ UNCHANGED <<redisUp, loops, allCur, joinVars, writing, wStopped, httpVars, connVars, regVars,
                 broadcastQueue, bwVars, hbVars, bus, onlineSet, markOnline, unread,
                 readDel, sent, histVars, onlineKey>>

\* cc.redisClient.Set(ctx, "online:"+userID, "1", 5 min); the read loop begins
ccSetOnline(k) ==
  /\ wsPc[k] = "set"
  /\ wsPc' = [wsPc EXCEPT ![k] = "loop"]
  /\ onlineKey' = IF redisUp THEN onlineKey \cup {wsUser[k]} ELSE onlineKey
  /\ UNCHANGED <<redisUp, loops, allCur, joinVars, writing, wStopped, httpVars, connVars, regVars,
                 broadcastQueue, bwVars, hbVars, bus, onlineSet, markOnline, unread,
                 readDel, sent, histVars, wsNext, wsUser, ccClients>>

\* The peer goes away: every later read and write on the connection fails
ccPeerClose(k) ==
  /\ wsPc[k] = "loop"
  /\ wsPc' = [wsPc EXCEPT ![k] = "broken"]
  /\ UNCHANGED <<redisUp, loops, allCur, joinVars, writing, wStopped, httpVars, connVars, regVars,
                 broadcastQueue, bwVars, hbVars, bus, onlineSet, markOnline, unread,
                 readDel, sent, histVars, wsNext, wsUser, ccClients, onlineKey>>

\* conn.ReadMessage() returns an error: break
ccReadFails(k) ==
  /\ wsPc[k] = "broken"
  /\ wsPc' = [wsPc EXCEPT ![k] = "cleanup"]
  /\ UNCHANGED <<redisUp, loops, allCur, joinVars, writing, wStopped, httpVars, connVars, regVars,
                 broadcastQueue, bwVars, hbVars, bus, onlineSet, markOnline, unread,
                 readDel, sent, histVars, wsNext, wsUser, ccClients, onlineKey>>

\* delete(cc.clients, userID) under clientsMu
ccCleanup(k) ==
  /\ wsPc[k] = "cleanup"
  /\ wsPc' = [wsPc EXCEPT ![k] = "del"]
  /\ ccClients' = [ccClients EXCEPT ![wsUser[k]] = NoConn]
  /\ UNCHANGED <<redisUp, loops, allCur, joinVars, writing, wStopped, httpVars, connVars, regVars,
                 broadcastQueue, bwVars, hbVars, bus, onlineSet, markOnline, unread,
                 readDel, sent, histVars, wsNext, wsUser, onlineKey>>

\* cc.redisClient.Del(ctx, "online:"+userID), then the deferred conn.Close()
ccDelOnline(k) ==
  /\ wsPc[k] = "del"
  /\ wsPc' = [wsPc EXCEPT ![k] = "closed"]
  /\ onlineKey' = IF redisUp THEN onlineKey \ {wsUser[k]} ELSE onlineKey
  /\ UNCHANGED <<redisUp, loops, allCur, joinVars, writing, wStopped, httpVars, connVars, regVars,
                 broadcastQueue, bwVars, hbVars, bus, onlineSet, markOnline, unread,
                 readDel, sent, histVars, wsNext, wsUser, ccClients>>

\* The connections of cc.clients on which a write fails
ccBroken == {u \in Users : ccClients[u] # NoConn /\ wsPc[ccClients[u]] \notin {"set", "loop"}}

\* heartbeatCheck, one tick: under clientsMu, a ping on every connection of
\* cc.clients; where the write fails, delete(cc.clients, userID) and Del online:<u>
ccHeartbeatCheck ==
  /\ ccClients' = [u \in Everyone |-> IF u \in ccBroken THEN NoConn ELSE ccClients[u]]
  /\ onlineKey' = IF redisUp THEN onlineKey \ ccBroken ELSE onlineKey
  /\ UNCHANGED <<redisUp, loops, allCur, joinVars, writing, wStopped, httpVars, connVars, regVars,
                 broadcastQueue, bwVars, hbVars, bus, onlineSet, markOnline, unread,
                 readDel, sent, histVars, wsNext, wsUser, wsPc>>

\* The controller's socket endpoint, its sweep and the presence key's TTL
WsNext ==
  \/ \E u \in Users : ccHandleWebSocket(u)
  \/ \E k \in ConnIds : ccSetOnline(k) \/ ccPeerClose(k) \/ ccReadFails(k)
  \/ \E k \in ConnIds : ccCleanup(k) \/ ccDelOnline(k)
  \/ ccHeartbeatCheck
  \/ \E u \in Users : expireOnline(u)

SpecWs == Init /\ [][WsNext]_vars

\* Read-acknowledgements of any authenticated user, participant or not, over HTTP
\* and as "read" frames, with the messages they acknowledge
AckNext ==
  \/ \E u \in Users, c \in Chats : ccSendMessage(u, c)
  \/ \E n \in 1..MaxMsgs : messageWorker(n)
  \/ \E r \in Users, n \in 1..MaxMsgs, c \in Chats : sendMessageToUser(r, n, c)
  \/ \E u \in Everyone, c \in Chats : MarkAsRead(c, u)
  \/ \E u \in Everyone : HandleConnection(u)
  \/ \E k \in ConnIds, c \in Chats : handleReadMessage(k, c)
  \/ \E u \in Everyone, c \in Chats : delUnread(u, c)

SpecAck == Init /\ [][AckNext]_vars

\* ------------------------------------------------------------- ping frames
\* The frame handleMessage answers a ping with
Pong == BroadcastMessage("pong", NoChat, 0, NoUser)

\* readPump reads a frame of type "ping" and handleMessage comes to the send
handlePing(k) ==
  /\ Reading(k)
  /\ Len(enqLog[k]) < MaxPings
  /\ rpc' = [rpc EXCEPT ![k] = "pong"]
  /\ UNCHANGED <<redisUp, svcVars, httpVars, nextConn, cID, cOpen, cSend, cChatRooms, rop,
                 rarg, regVars, broadcastQueue, bwVars, hbVars, bus, redisVars, sent,
                 fullClosed, deliveredSince, oversize, reply, enqLog>>

\* c.Send <- &WSMessage{Type: "pong"}: a send that waits while the channel is
\* full; then the handler returns and readPump goes back to ReadMessage
pongSend(k) ==
  /\ k \in Allocated /\ rpc[k] = "pong"
  /\ Len(cSend[k]) < SendCap
  /\ cSend' = [cSend EXCEPT ![k] = Append(@, Pong)]
  /\ enqLog' = [enqLog EXCEPT ![k] = Append(@, Pong)]
  /\ rpc' = [rpc EXCEPT ![k] = "read"]
  /\ UNCHANGED <<redisUp, svcVars, httpVars, nextConn, cID, cOpen, cChatRooms, rop,
                 rarg, regVars, broadcastQueue, bwVars, hbVars, bus, redisVars, sent,
                 fullClosed, deliveredSince, oversize, reply>>

\* writePump on a closed connection: its next write fails and it returns. The
\* select takes a frame from c.Send (which is lost) or the ticker's ping.
writeFail(k) ==
  /\ k \in Allocated /\ ~cOpen[k] /\ ~wStopped[k]
  /\ wStopped' = [wStopped EXCEPT ![k] = TRUE]
  /\ \/ cSend[k] # <<>> /\ cSend' = [cSend EXCEPT ![k] = Tail(@)]
     \/ UNCHANGED cSend
  /\ UNCHANGED <<redisUp, loops, allCur, joinVars, writing, wsVars, httpVars, nextConn,
                 cID, cOpen, cChatRooms, rpc, rop, rarg, regVars, broadcastQueue, bwVars,
                 hbVars, bus, redisVars, sent, histVars>>

\* Connections that send pings, with their read loops and their writers
PingNext ==
  \/ \E u \in Users : HandleConnection(u)
  \/ \E k \in ConnIds : peerClose(k)
  \/ \E k \in ConnIds : handlePing(k) \/ pongSend(k)
  \/ \E k \in ConnIds : writePump(k) \/ writeFail(k)

\* The server's own tasks go on when they can
PingFairness ==
  \A k \in ConnIds :
    WF_vars(pongSend(k)) /\ WF_vars(writePump(k)) /\ WF_vars(writeFail(k))

SpecPing == Init /\ [][PingNext]_vars /\ PingFairness

\* ------------------------------------------------------------------ claims
\* Clients of one user, allocated and with an open connection
LiveOf(u) == {k \in Allocated : cID[k] = u /\ cOpen[k]}

\* C1: at every time the process holds at most one live connection per user ID;
\* a connection registered earlier for the same user is closed when the next one
\* registers and is never open alongside it.
C1_OneLiveConnectionPerUser ==
  \A u \in Users : Cardinality(LiveOf(u)) <= 1

\* Frames of message n ever enqueued on Client k
FramesOf(k, n) == {i \in DOMAIN enqLog[k] : enqLog[k][i].id = n}

\* C4: no double delivery via the bus: a message put on the local broadcast queue
\* and published on chat:broadcast is not delivered again when the process gets
\* its own publication back; each connection's outbound queue gets at most one
\* frame per message.
C4_NoDoubleDelivery ==
  \A k \in ConnIds : \A n \in 1..MaxMsgs : Cardinality(FramesOf(k, n)) <= 1

\* C6: a user's own connection never receives an echo of a chat message the user
\* sent: no frame of a chat message is enqueued on the outbound queue of a
\* connection whose user ID is the message's sender.
C6_NoEchoToSender ==
  \A k \in ConnIds : \A i \in DOMAIN enqLog[k] :
    enqLog[k][i].type = "message" => enqLog[k][i].from # cID[k]

\* Nothing is left to deliver on the live path
LiveQuiet == broadcastQueue = <<>> /\ bus = {} /\ bwPc = "idle"

\* Chat messages accepted over live connections, of chat c, not sent by y
LiveMessagesFor(y, c) ==
  {n \in DOMAIN sent : /\ sent[n].via = "ws"
                       /\ sent[n].frame.type = "message"
                       /\ sent[n].frame.chat = c
                       /\ sent[n].frame.from # y}

\* User y never had a connection
NeverConnected(y) == \A k \in Allocated : cID[k] # y

\* C7: Scenario A: when online user X sends a chat message over the live
\* connection to a conversation shared with user Y, who has no connection, a
\* Message is persisted with isRead = false and Y's unread counter for the
\* conversation increases by exactly 1. Stated once the live path is quiet, in a
\* system without read-acknowledgements and key expiry: every such message has its
\* row and Y's counter is the number of such messages.
C7_ScenarioA ==
  LiveQuiet =>
    \A y \in Users : \A c \in Chats :
      (y \in ChatUsers(c) /\ NeverConnected(y)) =>
        /\ \A n \in LiveMessagesFor(y, c) :
             Message(n, c, sent[n].frame.from) \in dbMessages
        /\ unread[y][c] = Cardinality(LiveMessagesFor(y, c))

\* The first frame of every message on a log, in the order of the log
FirstsInOrder(log) ==
  \A i, j \in DOMAIN log :
    (/\ i < j
     /\ \A h \in 1..(i - 1) : log[h].id # log[i].id
     /\ \A h \in 1..(j - 1) : log[h].id # log[j].id) => log[i].id < log[j].id

\* Everything accepted so far is a chat message of user u over a live connection
OnlySender(u) ==
  \A n \in DOMAIN sent :
    sent[n].via = "ws" /\ sent[n].frame.type = "message" /\ sent[n].frame.from = u

\* Client k was in the room when the first message was broadcast
InRoomFromStart(k) == enqLog[k] # <<>> /\ enqLog[k][1].id = 1

\* C8: Scenario B: when a sender sends N chat messages in quick succession to a
\* room whose recipient has an outbound queue of capacity greater than N, the
\* messages are enqueued on the recipient's outbound queue in the order they were
\* sent and the recipient's connection is not closed or evicted.
C8_ScenarioB ==
  \A u \in Users : \A k \in Allocated :
    (OnlySender(u) /\ cID[k] # u /\ Len(sent) < SendCap /\ InRoomFromStart(k)) =>
      k \notin fullClosed /\ FirstsInOrder(enqLog[k])

\* The broadcast worker takes the head of the queue, finds its room and is let
\* through RLock
FanOut ==
  /\ bwPc = "idle"
  /\ broadcastQueue # <<>>
  /\ broadcastQueue' = Tail(broadcastQueue)
  /\ Head(broadcastQueue).chat \in chatRooms
  /\ ~WriterWaiting(Head(broadcastQueue).chat)

C2_UnreadCounter ==
  redisUp =>
    \A u \in Users : \A c \in Chats :
      unread[u][c] >= 0 /\ unread[u][c] = Cardinality(deliveredSince[u][c])

\* Message n was taken in and is on its way: on the broadcast queue, published
\* and not yet received, held by the blocked worker, or (HTTP) stored and with
\* its push to user r pending
OnItsWay(n, r) ==
  \/ \E i \in DOMAIN broadcastQueue :
       broadcastQueue[i].id = n /\ broadcastQueue[i].type = "message"
  \/ \E b \in bus : b.id = n
  \/ bwPc = "rlock" /\ bwCur.id = n /\ bwCur.type = "message"
  \/ \E c \in Chats : <<r, n, c>> \in ccPush

\* Client k is the registered connection of a participant other than the sender
\* of message n, open, a member of the message's room, with room in its queue
ReadyFor(k, n) ==
  /\ k \in Allocated /\ n \in DOMAIN sent
  /\ cOpen[k]
  /\ clients[cID[k]] = k
  /\ cID[k] \in Receivers(sent[n].frame.chat, sent[n].frame.from)
  /\ k \in RoomMembers(sent[n].frame.chat)
  /\ Len(cSend[k]) < SendCap

\* C3: at-least-once delivery: when a message has been ingested, over a live
\* connection or over HTTP, and a recipient participant's connection is alive with
\* free capacity in its outbound queue, that queue eventually receives a frame
\* with the message's id (or the connection stops being alive with capacity).
C3_AtLeastOnce ==
  \A k \in ConnIds : \A n \in 1..MaxMsgs :
    (ReadyFor(k, n) /\ OnItsWay(n, cID[k])) ~> (FramesOf(k, n) # {} \/ ~ReadyFor(k, n))

\* The presence store holds nothing for user u
Offline(u) == u \notin onlineKey /\ u \notin onlineSet

\* The user of Client k has registered a newer connection
Superseded(k) == \E u \in Users : cID[k] = u /\ clients[u] \notin {k, NoConn}

\* C9: Scenario C: a recipient whose outbound queue is not drained and is sent
\* more frames than the queue holds is closed at the first frame that cannot be
\* enqueued, and afterwards the presence store is marked offline for it: its online
\* key and its membership of the online set are removed.
C9_ScenarioC ==
  \A k \in ConnIds : (k \in fullClosed) ~> (Offline(cID[k]) \/ Superseded(k))

\* Client k is in no registry entry and in no room
Gone(k) ==
  /\ \A u \in Users : clients[u] # k
  /\ \A c \in Chats : k \notin RoomMembers(c)

\* C10: Scenario D: a connection that has stopped answering pings (its read
\* deadline has passed and it is closed) is eventually, the claim says within two
\* sweeps, removed from the registry and from every room it had joined, and marked
\* offline in the presence store.
C10_ScenarioD ==
  \A k \in ConnIds :
    (k \in Allocated /\ ~cOpen[k]) ~>
      (Gone(k) /\ (Offline(cID[k]) \/ Superseded(k)))

\* The read-acknowledgement of user u for chat c has taken effect on the stores:
\* the counter reads 0 and every message of the chat sent by someone else is read
Acked(u, c) ==
  /\ unread[u][c] = 0
  /\ \A m \in dbMessages : (m.chat = c /\ m.sender # u) => m.isRead

\* The last frame accepted was a read frame of user u for chat c, and its Del has run
ReadFrameDone(u, c) ==
  /\ sent # <<>>
  /\ sent[Len(sent)] = Accepted(BroadcastMessage("read", c, Len(sent), u), "ws")
  /\ <<u, c>> \notin readDel
  /\ unread[u][c] = 0

NoEffect(n) ==
  /\ \A i \in DOMAIN broadcastQueue : broadcastQueue[i].id # n
  /\ \A b \in bus : b.id # n
  /\ bwCur.id # n
  /\ \A k \in ConnIds : FramesOf(k, n) = {}
  /\ \A m \in dbMessages : m.id # n
  /\ n \notin ccQueue \cup csQueue \cup procQueue
  /\ \A r \in Users, c \in Chats : <<r, n, c>> \notin ccPush /\ n \notin deliveredSince[r][c]

\* C12: ingest validation: on every ingestion path a message whose content is
\* empty or longer than 1000 is rejected and has no side effect: nothing of it is
\* persisted, enqueued, broadcast or counted as unread.
C12_IngestValidation ==
  \A n \in oversize : NoEffect(n)

\* C13: ingest permission: no message whose sender is not a participant of the
\* target conversation is ever persisted, broadcast to the connections of the
\* conversation's participants or counted as unread.
C13_IngestPermission ==
  \A n \in DOMAIN sent :
    (sent[n].frame.type = "message" /\ sent[n].frame.from \notin ChatUsers(sent[n].frame.chat)) =>
      /\ \A k \in ConnIds :
           cID[k] \in ChatUsers(sent[n].frame.chat) => FramesOf(k, n) = {}
      /\ \A m \in dbMessages : m.id # n
      /\ \A r \in Users, c \in Chats : n \notin deliveredSince[r][c]

\* HTTP request n was taken off its queue, or processed inline, and config.DB.Create
\* failed: it is accepted, waits on no queue and has no row
Unstored(n) ==
  /\ n \in DOMAIN sent
  /\ sent[n].via \in {"cc", "cs"}
  /\ n \notin ccQueue \cup csQueue
  /\ \A m \in dbMessages : m.id # n

C15_NoSilentDrop ==
  [][/\ \A k \in ConnIds, c \in Chats, x \in Contents :
          handleChatFrame(k, c, x) =>
            broadcastQueue' =
              Append(broadcastQueue, BroadcastMessage("message", c, NextId, cID[k]))
     /\ \A u \in Users, c \in Chats :
          /\ ccSendMessage(u, c) => (NextId \in ccQueue' \/ reply'[NextId] = "201")
          /\ csSendMessage(u, c) => (NextId \in csQueue' \/ ccQueue' = ccQueue)]_vars

\* The answers of SendMessage that tell the sender the message was sent
Success == {"202", "201", "ok"}

\* C16: a send is acknowledged as successful to the sender only once the message
\* is durably persisted: every request answered with success (HTTP 202 or 201, or
\* a nil error) has its row in the messages table.
C16_AckAfterPersist ==
  \A n \in 1..MaxMsgs : reply[n] \in Success => \E m \in dbMessages : m.id = n

Stored(n) == \E m \in dbMessages : m.id = n

\* Nothing is pending on the live path or on the HTTP paths
AllQuiet ==
  LiveQuiet /\ ccQueue = {} /\ csQueue = {} /\ procQueue = {} /\ ccPush = {}

\* The connections that were sent a frame of message n
FramedTo(n) == {k \in ConnIds : FramesOf(k, n) # {}}

\* C18: sending a chat message over the live connection and sending the same
\* (sender, conversation, content) through the HTTP fallback are one logical
\* operation: once both have been processed, with storage working and the room
\* unchanged meanwhile, the two messages are both persisted and were sent to the
\* same connections.
C18_PathEquivalence ==
  AllQuiet =>
    \A n, m \in DOMAIN sent :
      (/\ sent[n].via = "ws" /\ sent[m].via \in {"cc", "cs"}
       /\ sent[n].frame.type = "message"
       /\ sent[n].frame.chat = sent[m].frame.chat
       /\ sent[n].frame.from = sent[m].frame.from
       /\ Stored(n) \/ Stored(m)) =>
        /\ Stored(n) /\ Stored(m)
        /\ FramedTo(n) = FramedTo(m)

\* C19: a frame whose type is none of message, typing, read, join_chat,
\* leave_chat, ping is ignored: handling it leaves the registry, the rooms, the
\* queues, presence and the unread counters as they were, and the connection stays
\* open with its read loop ready for the next frame.
C19_UnknownFrameIgnored ==
  [][\A k \in ConnIds :
       handleMessageDefault(k) =>
         /\ UNCHANGED progVars
         /\ rpc'[k] = "read" /\ cOpen'[k]]_vars

\* A connection sent a frame of unknown type and then a chat message, which was
\* taken in and broadcast to a room member
C19_Witness ==
  /\ Len(sent) = 2
  /\ sent[1].frame.type = "unknown"
  /\ sent[2].frame.type = "message"
  /\ sent[2].frame.from = sent[1].frame.from
  /\ \E k \in ConnIds : FramesOf(k, 2) # {}

\* C20: a user's presence entry exists if and only if a connection for that user
\* exists within the TTL window, the TTL being refreshed on every successful
\* heartbeat: after a heartbeat ping that succeeds on the registered connection of
\* a user whose presence was set at registration, the key online:<user> exists, so
\* that the user is not reported offline.
C20_PresenceIffConnection ==
  [][redisUp =>
       \A u \in Users :
         (hbPingOk(u) /\ u \notin markOnline) => u \in onlineKey']_vars

\* C21: Increment is atomic under concurrency: with the deliveries of several
\* workers for one (recipient, conversation) running side by side and no reset in
\* between, the unread counter is the number of deliveries made: N deliveries
\* raise it by exactly N. Stated for a process with its Redis client configured and
\* within the keys' TTL.
C21_AtomicIncrement ==
  redisUp =>
    \A u \in Users : \A c \in Chats :
      unread[u][c] = Cardinality(deliveredSince[u][c])

\* Every message of the run was delivered for Y and counted
C21_Witness ==
  /\ redisUp
  /\ deliveredSince["Y"]["c1"] = 1..MaxMsgs
  /\ unread["Y"]["c1"] = MaxMsgs
\* C22: the number of delivery worker tasks is fixed at startup and never changes
\* afterwards: no request handled after startup (MarkAsRead, DeleteChat,
\* GetOnlineUsers) adds worker or sweep loops.
C22_FixedWorkerCount == loops = StartupLoops

\* C23: a connection whose ping write fails is evicted in that same sweep: after
\* the sweep it is absent from the registry and from the member set of every room,
\* and its presence key and online-set membership are removed, even if it was
\* processing a join_chat frame concurrently with the sweep. Stated for the step
\* that ends a sweep with the removal of a user.
C23_EvictedInSweep ==
  [][(hbPc = "evict" /\ hbPc' = "idle") =>
       /\ clients'[hbUser] = NoConn
       /\ \A c \in Chats : roomClients'[c][hbUser] = NoConn
       /\ redisUp => (hbUser \notin onlineKey' /\ hbUser \notin onlineSet')]_vars

\* C24: the connection registry follows a read-write lock discipline: every
\* insertion into or deletion from the registry map happens while the exclusive
\* lock is held, so no task iterates or looks up the registry under the read lock
\* while another task mutates it. The exclusive lock is held only when no read
\* lock is: the registry changes in no step taken while a read lock is held.
C24_RegistryLockDiscipline ==
  [][clients' # clients => clientsMutexReaders = 0]_vars

\* C25: no registry lock or room lock is held while a task performs potentially
\* slow I/O: in every reachable state, a task that is doing a socket write or an
\* external-store call holds neither the connection-registry lock nor any room
\* lock. Stated for the liveness sweep and its ping writes.
C25_NoLockDuringIO == ~(hbPinging /\ hbHoldsClientsMutex)

\* C26: delivery never blocks membership mutation: the broadcast worker releases
\* a room's read lock after each broadcast, so a join_chat or leave_chat for a room
\* always eventually acquires that room's lock and completes, also after
\* broadcasts have been delivered to that room.
C26_JoinCompletes ==
  \A k \in ConnIds : (rpc[k] \in {"roomLock", "roomWait"}) ~> (rpc[k] = "read")

C28_MessageImmutable ==
  [][\A m \in dbMessages :
       /\ \E w \in dbMessages' :
            /\ w.id = m.id /\ w.chat = m.chat /\ w.sender = m.sender
            /\ m.isRead => w.isRead
       /\ \A w \in dbMessages' :
            w.id = m.id => (w.chat = m.chat /\ w.sender = m.sender /\ (m.isRead => w.isRead))
    ]_vars

\* C28: a message was marked read, and a later message of the same sender and
\* conversation was stored after that
C28_Witness ==
  \E m, w \in dbMessages :
    /\ m.chat = w.chat /\ m.sender = w.sender /\ m.id < w.id
    /\ m.isRead /\ ~w.isRead

\* Every accepted message has been worked off by the pools
AllProcessed == ccQueue = {} /\ csQueue = {} /\ procQueue = {} /\ ccPush = {}

\* C29: the conversation summary converges: after all accepted messages of a
\* conversation have been processed by the workers, the conversation's lastMessage
\* is the content of its most recently created message, also when several workers
\* process messages of the conversation concurrently.
C29_SummaryConverges ==
  AllProcessed => \A c \in Chats : lastMessage[c] = lastCreated[c]

\* The read loop of Client k has ended with an error and the deferred Close has
\* run; writePump ends at its next write
LoopEnded(k) == k \in Allocated /\ ~cOpen[k] /\ rpc[k] = "read"

\* C30: a connection is destroyed on read or write failure: after its read loop
\* or write loop has ended with an error, the connection is eventually removed
\* from the registry and from every room it joined, and the user is marked
\* offline, unless the user has registered a newer connection in the meantime.
C30_DestroyedOnFailure ==
  \A k \in ConnIds :
    LoopEnded(k) ~> (Superseded(k) \/ (Gone(k) /\ Offline(cID[k])))

\* C31: each connection has exactly one writer: at no time do two tasks (the write
\* loop, the liveness sweep, a delivery task, the unread replay or the read loop's
\* pong reply) write to the same connection's transport concurrently. The sweep
\* makes no ping write on a connection whose write loop is inside a write.
C31_SingleWriter ==
  [][\A u \in Users : (hbPingOk(u) \/ hbPingFail(u)) => ~writing[clients[u]]]_vars

\* C32: a room never outlives the connections it holds: in every reachable state
\* each member of every room is the connection currently registered in the
\* registry for its user; a connection that was superseded by a newer one of the
\* same user, or evicted, is a member of no room.
C32_MembersAreRegistered ==
  \A c \in Chats : \A u \in Users :
    roomClients[c][u] # NoConn => roomClients[c][u] = clients[u]

\* C33: join and leave determine who receives broadcasts: a connection receives
\* frames for a conversation only while it is joined to it, and a leave_chat for
\* a conversation it never joined changes nothing. A broadcast is enqueued only
\* on members of its room, and the leave_chat of a connection that has not the
\* conversation in its ChatRooms leaves every room as it was.
C33_JoinLeaveDetermine ==
  [][/\ \A k \in ConnIds :
          (startBroadcastWorker /\ enqLog'[k] # enqLog[k]) =>
            k \in RoomMembers(Head(broadcastQueue).chat)
     /\ \A k \in ConnIds : \A c \in Chats :
          (handleLeaveChat(k, c) /\ c \notin cChatRooms[k]) =>
            roomClients' = roomClients]_vars

\* C34: the chat subsystem is deadlock-free: under any interleaving of
\* broadcasts, join_chat and leave_chat frames, liveness sweeps and new
\* connections, the broadcast worker keeps draining the broadcast queue, the sweep
\* finishes each tick, and a new connection's registration eventually gets the
\* registry lock: a sweep that has begun ends, which frees the registry lock, and
\* a worker that waits for a room's lock gets it.
C34_DeadlockFree ==
  /\ hbHoldsClientsMutex ~> ~hbHoldsClientsMutex
  /\ (bwPc = "rlock") ~> (bwPc = "idle")

\* A later connection of the same user that HandleWebSocket serves
wsNewer(k) == {j \in ConnIds : j > k /\ wsUser[j] = wsUser[k] /\ wsPc[j] \in {"set", "loop"}}

\* C35: in ChatController.HandleWebSocket the cleanup at the end of a
\* connection's read loop removes only that connection: where the same user has
\* registered a newer connection in the meantime, the newer connection stays in
\* cc.clients and the user's presence key is not deleted.
C35_CleanupOwnOnly ==
  [][\A k \in ConnIds :
       wsNewer(k) # {} =>
         /\ (ccCleanup(k) => ccClients' = ccClients)
         /\ (ccDelOnline(k) => onlineKey' = onlineKey)]_vars

\* C36: only participants of a conversation receive its messages: a frame for a
\* chat message of conversation c is enqueued only on connections whose user is
\* a participant of c, so a join_chat of a user who does not take part in c never
\* makes that user receive the messages of c.
C36_OnlyParticipantsReceive ==
  \A k \in Allocated : \A i \in DOMAIN enqLog[k] :
    enqLog[k][i].type = "message" => cID[k] \in ChatUsers(enqLog[k][i].chat)

\* ChatService.IsUserOnline: cs.onlineUsers is never stored to, so the answer is
\* Exists online:<user>
IsUserOnline(u) == redisUp /\ u \in onlineKey

\* GetOnlineUsers: SMembers online:users
GetOnlineUsers == onlineSet

\* GetOnlineUserCount: SCard online:users
GetOnlineUserCount == Cardinality(onlineSet)

\* C37: the two presence views agree: after any sequence of connects, evictions
\* and TTL expiries a user is in the set that GetOnlineUsers returns exactly when
\* IsUserOnline reports the user online, and GetOnlineUserCount is the size of
\* that set.
C37_PresenceViewsAgree ==
  /\ \A u \in Users : u \in GetOnlineUsers <=> IsUserOnline(u)
  /\ GetOnlineUserCount = Cardinality(GetOnlineUsers)

\* The sweep has evicted the user's connection and the user has no newer one
Evicted(u) == clients[u] = NoConn /\ \E k \in Allocated : cID[k] = u

\* C38: presence updates are ordered with the connection's lifecycle: the
\* mark-online write of HandleConnection, which runs as a task of its own, never
\* takes effect after the mark-offline of the same connection's eviction; a user
\* whose connection has been evicted and who has no newer connection is not in
\* the online set.
C38_OfflineAfterEviction ==
  \A u \in Users : Evicted(u) => u \notin onlineSet

\* C39: handling an inbound frame never blocks a connection's read loop for
\* ever: a ping frame puts exactly one pong frame on the sender's own outbound
\* queue and on no other connection's, and when that queue is full or its writer
\* has stopped the read loop still goes on or ends.
C39_PingNeverBlocks ==
  /\ [][\A k \in ConnIds :
          pongSend(k) =>
            /\ cSend'[k] = Append(cSend[k], Pong)
            /\ \A j \in ConnIds \ {k} : cSend'[j] = cSend[j]]_vars
  /\ \A k \in ConnIds : (rpc[k] = "pong") ~> (rpc[k] = "read")

\* The unread counters of every pair other than (u, c) are left as they were
OthersKept(u, c) ==
  \A v \in Everyone : \A d \in Chats :
    <<v, d>> # <<u, c>> => unread'[v][d] = unread[v][d]

\* C40: a read-acknowledgement affects only the acknowledging participant:
\* MarkAsRead(c, u), or a "read" frame, of a user u who is not a participant of
\* conversation c changes no message's isRead flag and no unread counter; for a
\* participant it leaves the unread counters of every other (user, conversation)
\* pair and the messages of other conversations unchanged.
C40_AckOwnOnly ==
  [][\A u \in Everyone : \A c \in Chats :
       /\ (MarkAsRead(c, u) /\ u \notin ChatUsers(c)) =>
            dbMessages' = dbMessages /\ unread' = unread
       /\ (MarkAsRead(c, u) /\ u \in ChatUsers(c)) =>
            /\ OthersKept(u, c)
            /\ {m \in dbMessages' : m.chat # c} = {m \in dbMessages : m.chat # c}
       /\ (delUnread(u, c) \/ \E k \in ConnIds : cID[k] = u /\ handleReadMessage(k, c)) =>
            dbMessages' = dbMessages /\ OthersKept(u, c)]_vars

====
